---- MODULE Spec2Model ----
(***************************************************************************)
(* A model of the meeting-notes viewer in src/app.js (first program of the *)
(* file, lines 1-603): the note parser, the markup highlighter, the        *)
(* generator / power-cycle index and the loader with the click handlers    *)
(* that drive them.                                                        *)
(*                                                                         *)
(* A JavaScript string is modelled as a sequence of one-character strings, *)
(* so that trimming, case folding, slugging and pattern matching are       *)
(* computed character by character as the code computes them.              *)
(***************************************************************************)
EXTENDS Integers, Sequences, FiniteSets

VARIABLES
    loadPc,             \* position of init()/loadNotes(): "manifest", "fetching", "done", "failed"
    manifest,           \* the filenames of notes.json, once it has arrived as an array
    fetchSt,            \* per manifest position: "pending", "body", "ok", "fail"
    fetched,            \* per manifest position: the note object its mapper returned
    notes,              \* let notes
    notesByDateKey,     \* let notesByDateKey
    activeNoteId,       \* let activeNoteId
    inNoteSearchDisabled, \* els.inNoteSearch.disabled
    loadErrors,         \* number of times init()'s catch block put the error state on screen
    generatorsIndex,    \* let generatorsIndex
    generatorsDisplay,  \* let generatorsDisplay
    powerCyclesMap,     \* let powerCyclesMap
    genCards,           \* the generator cards in els.generatorList (their data-genkey)
    shown,              \* what showGeneratorMentionsByKey last put in els.generatorMentions
    view,               \* which of the two views showView left visible
    fnPc,               \* pure-function harness: "call" before, "ret" after the call
    fnArgs,             \* pure-function harness: the arguments
    fnOut               \* pure-function harness: the value returned

appVars == <<loadPc, manifest, fetchSt, fetched, notes, notesByDateKey, activeNoteId,
             inNoteSearchDisabled, loadErrors, generatorsIndex, generatorsDisplay, powerCyclesMap,
             genCards, shown, view>>

fnVars == <<fnPc, fnArgs, fnOut>>

vars == <<appVars, fnVars>>

-----------------------------------------------------------------------------
(* Bounds of the model. *)

\* longest raw text enumerated exhaustively for the parser
MaxTextLen == 5

\* longest markup enumerated exhaustively for the highlighter
MaxHtmlLen == 5

\* most filenames in notes.json when the loader runs
MaxFiles == 2

\* most notes in the collection the index is built from
MaxIndexedNotes == 3

\* most notes in the collection whose tables the lookups are run against
MaxLookupNotes == 2

-----------------------------------------------------------------------------
(* Characters and strings. *)

UpperLetters == <<"A", "B", "C", "D", "E", "F", "G", "H", "I", "J", "K", "L", "M", "N", "O", "P", "Q", "R", "S", "T", "U", "V", "W", "X", "Y", "Z">>

LowerLetters == <<"a", "b", "c", "d", "e", "f", "g", "h", "i", "j", "k", "l", "m", "n", "o", "p", "q", "r", "s", "t", "u", "v", "w", "x", "y", "z">>

Digits == <<"0", "1", "2", "3", "4", "5", "6", "7", "8", "9">>

\* the sequences over S of length at most n
SeqsUpTo(S, n) == UNION {[1..k -> S] : k \in 0..n}

Range(s) == {s[i] : i \in 1..Len(s)}

Min(S) == CHOOSE x \in S : \A y \in S : x <= y

Max(S) == CHOOSE x \in S : \A y \in S : x >= y

\* the characters String.prototype.trim removes and \s matches
Whitespace == {" ", "\t", "\n", "\r"}

IsSpace(c) == c \in Whitespace

\* one character of String.prototype.toLowerCase
LowerChar(c) ==
    IF c \in Range(UpperLetters)
    THEN LowerLetters[CHOOSE i \in 1..Len(UpperLetters) : UpperLetters[i] = c]
    ELSE c

toLowerCase(s) == [i \in 1..Len(s) |-> LowerChar(s[i])]

\* the class [a-z0-9]
IsAlnum(c) == c \in Range(LowerLetters) \cup Range(Digits)

\* the class \d
IsDigit(c) == c \in Range(Digits)

\* s with its leading and trailing characters of the set drop removed
Strip(s, drop) ==
    LET keep == {i \in 1..Len(s) : s[i] \notin drop}
    IN  IF keep = {} THEN <<>> ELSE SubSeq(s, Min(keep), Max(keep))

trim(s) == Strip(s, Whitespace)

startsWith(s, p) == Len(s) >= Len(p) /\ SubSeq(s, 1, Len(p)) = p

endsWith(s, p) == Len(s) >= Len(p) /\ SubSeq(s, Len(s) - Len(p) + 1, Len(s)) = p

\* s.slice(0, n) for n >= 0
sliceTo(s, n) == SubSeq(s, 1, IF Len(s) < n THEN Len(s) ELSE n)

\* s.slice(n) for n >= 0
sliceFrom(s, n) == SubSeq(s, n + 1, Len(s))

RECURSIVE Concat(_)
\* Array.prototype.join("") of a sequence of strings
Concat(ss) == IF ss = <<>> THEN <<>> ELSE Head(ss) \o Concat(Tail(ss))

normalizeQuery(q) == toLowerCase(trim(q))

normalizeNameKey(s) == SelectSeq(toLowerCase(s), IsAlnum)

\* .replace(/[^a-z0-9]+/g, "-"): every maximal run of other characters becomes one hyphen
RECURSIVE HyphenateRuns(_, _)
HyphenateRuns(s, i) ==
    IF i > Len(s) THEN <<>>
    ELSE (IF IsAlnum(s[i]) THEN <<s[i]>>
          ELSE IF i = 1 \/ IsAlnum(s[i - 1]) THEN <<"-">>
          ELSE <<>>) \o HyphenateRuns(s, i + 1)

SlugMaxLen == 80

slugFor(str) == sliceTo(Strip(HyphenateRuns(toLowerCase(str), 1), {"-"}), SlugMaxLen)

\* the digits of a non-negative integer, as String(n) writes them
RECURSIVE NumToStr(_)
NumToStr(n) == IF n < 10 THEN <<Digits[n + 1]>> ELSE NumToStr(n \div 10) \o <<Digits[(n % 10) + 1]>>

\* parseInt(s, 10) of a string of digits
RECURSIVE parseInt(_)
parseInt(s) ==
    IF s = <<>> THEN 0
    ELSE 10 * parseInt(SubSeq(s, 1, Len(s) - 1))
         + (CHOOSE d \in 0..9 : Digits[d + 1] = s[Len(s)])

\* .padStart(2, "0")
padStart2(s) == IF Len(s) < 2 THEN <<"0">> \o s ELSE s

\* base.match(/^(\d{4})-(\d{1,2})-(\d{1,2})$/): the three groups, or <<>> for no match
MatchDate(base) ==
    LET hy == {i \in 1..Len(base) : base[i] = "-"}
    IN  IF Cardinality(hy) # 2 THEN <<>>
        ELSE LET h1 == Min(hy)
                 h2 == Max(hy)
                 g1 == SubSeq(base, 1, h1 - 1)
                 g2 == SubSeq(base, h1 + 1, h2 - 1)
                 g3 == SubSeq(base, h2 + 1, Len(base))
             IN  IF /\ Len(g1) = 4 /\ Len(g2) \in 1..2 /\ Len(g3) \in 1..2
                    /\ \A c \in Range(g1) \cup Range(g2) \cup Range(g3) : IsDigit(c)
                 THEN <<g1, g2, g3>> ELSE <<>>

dateKeyFromFilename(filename) ==
    LET base == IF endsWith(toLowerCase(filename), <<".", "t", "x", "t">>)
                THEN SubSeq(filename, 1, Len(filename) - 4) ELSE filename
        m == MatchDate(base)
    IN  IF m = <<>> THEN base
        ELSE m[1] \o <<"-">> \o padStart2(NumToStr(parseInt(m[2])))
                  \o <<"-">> \o padStart2(NumToStr(parseInt(m[3])))

-----------------------------------------------------------------------------
(* Parsing: parseNoteToBlocks.                                             *)

\* String(text).split(/\r?\n/)
RECURSIVE SplitLines(_)
SplitLines(text) ==
    LET nl == {i \in 1..Len(text) : text[i] = "\n"}
    IN  IF nl = {} THEN <<text>>
        ELSE LET j == Min(nl)
                 seg == SubSeq(text, 1, j - 1)
                 cut == IF seg # <<>> /\ seg[Len(seg)] = "\r"
                        THEN SubSeq(seg, 1, Len(seg) - 1) ELSE seg
             IN  <<cut>> \o SplitLines(SubSeq(text, j + 1, Len(text)))

\* rawLine.replace(/\t/g, "    ")
ReplaceTabs(line) ==
    Concat([i \in 1..Len(line) |-> IF line[i] = "\t" THEN <<" ", " ", " ", " ">> ELSE <<line[i]>>])

\* let currentSection = null
NoSection == [open |-> FALSE, title |-> <<>>, items |-> <<>>, paragraphs |-> <<>>]

\* the object literal a heading or a first bullet or paragraph opens (its id is null until flushed)
NewSection(title) == [open |-> TRUE, title |-> title, items |-> <<>>, paragraphs |-> <<>>]

Block(title, items, paragraphs, id) ==
    [type |-> "section", title |-> title, items |-> items, paragraphs |-> paragraphs, id |-> id]

\* a heading-less section is titled "Notes"
NotesTitle == <<"N", "o", "t", "e", "s">>

\* the id flushSection gives the open section
SectionId(filename, title) ==
    LET base == IF title = <<>> THEN <<"n", "o", "t", "e", "s">> ELSE title
    IN  slugFor(filename \o <<"-">> \o base)

flushSection(st, filename) ==
    IF ~st.cur.open THEN st
    ELSE [blocks |-> Append(st.blocks,
                            Block(st.cur.title, st.cur.items, st.cur.paragraphs,
                                  SectionId(filename, st.cur.title))),
          cur |-> NoSection]

\* the mutant of isHeading that lets through every line but a bullet
isHeadingUnlessBullet(trimmed) == endsWith(trimmed, <<":">>) /\ ~startsWith(trimmed, <<"-", " ">>)

isHeading(trimmed) == endsWith(trimmed, <<":">>) /\ ~startsWith(trimmed, <<"-">>)

isBullet(trimmed) == startsWith(trimmed, <<"-", " ">>)

\* the mutant of ParseLine in which a blank line closes the open section
ParseLineBlankCloses(st, rawLine, filename) ==
    LET line == ReplaceTabs(rawLine)
        trimmed == trim(line)
        cur == IF st.cur.open THEN st.cur ELSE NewSection(NotesTitle)
    IN  IF trimmed = <<>> THEN flushSection(st, filename)
        ELSE IF isHeading(trimmed)
        THEN [blocks |-> flushSection(st, filename).blocks,
              cur |-> NewSection(SubSeq(trimmed, 1, Len(trimmed) - 1))]
        ELSE IF isBullet(trimmed)
        THEN [st EXCEPT !.cur = [cur EXCEPT !.items = Append(@, sliceFrom(trimmed, 2))]]
        ELSE [st EXCEPT !.cur = [cur EXCEPT !.paragraphs = Append(@, trimmed)]]

\* the mutant of ParseLine that opens no section for content that precedes the headings
ParseLineHeadingsOnly(st, rawLine, filename) ==
    LET line == ReplaceTabs(rawLine)
        trimmed == trim(line)
    IN  IF trimmed = <<>> THEN st
        ELSE IF isHeading(trimmed)
        THEN [blocks |-> flushSection(st, filename).blocks,
              cur |-> NewSection(SubSeq(trimmed, 1, Len(trimmed) - 1))]
        ELSE IF ~st.cur.open THEN st
        ELSE IF isBullet(trimmed)
        THEN [st EXCEPT !.cur.items = Append(@, sliceFrom(trimmed, 2))]
        ELSE [st EXCEPT !.cur.paragraphs = Append(@, trimmed)]

\* one iteration of the loop over the lines
ParseLine(st, rawLine, filename) ==
    LET line == ReplaceTabs(rawLine)
        trimmed == trim(line)
        cur == IF st.cur.open THEN st.cur ELSE NewSection(NotesTitle)
    IN  IF trimmed = <<>> THEN st
        ELSE IF isHeading(trimmed)
        THEN [blocks |-> flushSection(st, filename).blocks,
              cur |-> NewSection(SubSeq(trimmed, 1, Len(trimmed) - 1))]
        ELSE IF isBullet(trimmed)
        THEN [st EXCEPT !.cur = [cur EXCEPT !.items = Append(@, sliceFrom(trimmed, 2))]]
        ELSE [st EXCEPT !.cur = [cur EXCEPT !.paragraphs = Append(@, trimmed)]]

RECURSIVE ParseLines(_, _, _)
ParseLines(st, lines, filename) ==
    IF lines = <<>> THEN st
    ELSE ParseLines(ParseLine(st, Head(lines), filename), Tail(lines), filename)

\* the value returned when the loop pushed no section
EmptyNoteBlocks(filename) ==
    <<Block(NotesTitle, <<>>, <<>>, slugFor(filename \o <<"-", "n", "o", "t", "e", "s">>))>>

\* the mutant of parseNoteToBlocks that returns the blocks array as it is
parseNoteToBlocksNoDefault(text, filename) ==
    flushSection(ParseLines([blocks |-> <<>>, cur |-> NoSection], SplitLines(text), filename),
                 filename).blocks

parseNoteToBlocks(text, filename) ==
    LET blocks == flushSection(ParseLines([blocks |-> <<>>, cur |-> NoSection],
                                          SplitLines(text), filename),
                               filename).blocks
    IN  IF Len(blocks) = 0 THEN EmptyNoteBlocks(filename) ELSE blocks

-----------------------------------------------------------------------------
(* Search: highlightHtml.                                                  *)
(* The markup returned is a sequence whose elements are the characters of  *)
(* the argument and, for each marker the replace callback inserts, one     *)
(* element MarkOpen or MarkClose; its text is the elements joined.         *)

MarkOpen == "<mark>"

MarkClose == "</mark>"

\* the end of the match of /<[^>]+>/ that starts at i, or 0 when none starts there
TagEnd(html, i) ==
    LET gt == {j \in (i + 1)..Len(html) : html[j] = ">"}
    IN  IF html[i] = "<" /\ gt # {} /\ Min(gt) >= i + 2 THEN Min(gt) ELSE 0

\* html.split(/(<[^>]+>)/g): text, tag, text, ..., tag, text
RECURSIVE SplitTags(_)
SplitTags(html) ==
    LET starts == {i \in 1..Len(html) : TagEnd(html, i) # 0}
    IN  IF starts = {} THEN <<html>>
        ELSE LET i == Min(starts)
                 j == TagEnd(html, i)
             IN  <<SubSeq(html, 1, i - 1), SubSeq(html, i, j)>>
                 \o SplitTags(SubSeq(html, j + 1, Len(html)))

\* whether the escaped query, with flag i, matches part at position i
MatchesAt(part, q, i) ==
    /\ i + Len(q) - 1 <= Len(part)
    /\ toLowerCase(SubSeq(part, i, i + Len(q) - 1)) = q

\* part.replace(re, (m) => `<mark>${m}</mark>`) from position i on, for a non-empty q
RECURSIVE MarkMatches(_, _, _)
MarkMatches(part, q, i) ==
    IF i > Len(part) THEN <<>>
    ELSE IF MatchesAt(part, q, i)
    THEN <<MarkOpen>> \o SubSeq(part, i, i + Len(q) - 1) \o <<MarkClose>>
         \o MarkMatches(part, q, i + Len(q))
    ELSE <<part[i]>> \o MarkMatches(part, q, i + 1)

\* the callback of parts.map
HighlightPart(part, q) ==
    IF startsWith(part, <<"<">>) THEN part ELSE MarkMatches(part, q, 1)

\* the mutant of highlightHtml that replaces in the whole markup, without the split
highlightHtmlUnsplit(html, query) ==
    LET q == normalizeQuery(query)
    IN  IF q = <<>> THEN html ELSE MarkMatches(html, q, 1)

highlightHtml(html, query) ==
    LET q == normalizeQuery(query)
        parts == SplitTags(html)
    IN  IF q = <<>> THEN html
        ELSE Concat([k \in 1..Len(parts) |-> HighlightPart(parts[k], q)])

-----------------------------------------------------------------------------
(* Counting: countOccurrences.                                             *)

\* the characters of the class [.*+?^${}()|[\]\\]
RegExpSpecials == {".", "*", "+", "?", "^", "$", "{", "}", "(", ")", "|", "[", "]", "\\"}

\* q.replace(/[.*+?^${}()|[\]\\]/g, "\\$&"): a backslash before every special character
EscapeRegExp(q) ==
    Concat([i \in 1..Len(q) |-> IF q[i] \in RegExpSpecials THEN <<"\\", q[i]>> ELSE <<q[i]>>])

\* new RegExp(source, "gi") from position i of the source on: one atom per pattern
\* character. A backslash makes the next character literal, a bare "." stands for any
\* character but a line end, any other bare special character is syntax ("(" with no
\* ")" and a backslash at the end are SyntaxErrors).
RECURSIVE PatternAtoms(_, _)
PatternAtoms(source, i) ==
    IF i > Len(source) THEN <<>>
    ELSE IF source[i] = "\\"
    THEN IF i = Len(source) THEN <<[kind |-> "error", c |-> "\\"]>>
         ELSE <<[kind |-> "char", c |-> source[i + 1]]>> \o PatternAtoms(source, i + 2)
    ELSE IF source[i] = "."
    THEN <<[kind |-> "any", c |-> "."]>> \o PatternAtoms(source, i + 1)
    ELSE IF source[i] \in RegExpSpecials
    THEN <<[kind |-> "error", c |-> source[i]]>> \o PatternAtoms(source, i + 1)
    ELSE <<[kind |-> "char", c |-> source[i]]>> \o PatternAtoms(source, i + 1)

\* the canonical form the flag i compares characters in: the upper case
Canonicalize(c) ==
    IF c \in Range(LowerLetters)
    THEN UpperLetters[CHOOSE i \in 1..Len(LowerLetters) : LowerLetters[i] = c]
    ELSE c

AtomMatches(atom, c) ==
    IF atom.kind = "any" THEN c \notin {"\n", "\r"}
    ELSE Canonicalize(atom.c) = Canonicalize(c)

\* the pattern matches the text at position i
PatternMatchesAt(atoms, text, i) ==
    /\ i + Len(atoms) - 1 <= Len(text)
    /\ \A k \in 1..Len(atoms) : AtomMatches(atoms[k], text[i + k - 1])

\* text.match(re) with the flag g: the matches found from position i on, each search
\* starting where the match before ended
RECURSIVE GlobalMatches(_, _, _)
GlobalMatches(atoms, text, i) ==
    IF i > Len(text) THEN 0
    ELSE IF PatternMatchesAt(atoms, text, i)
    THEN 1 + GlobalMatches(atoms, text, i + Len(atoms))
    ELSE GlobalMatches(atoms, text, i + 1)

\* what countOccurrences does with the pattern atoms of a non-empty q
CountWith(atoms, text) ==
    IF \E k \in 1..Len(atoms) : atoms[k].kind = "error"
    THEN [threw |-> TRUE, count |-> 0]
    ELSE [threw |-> FALSE, count |-> GlobalMatches(atoms, text, 1)]

\* the mutant of countOccurrences that makes the pattern of q as it is
countOccurrencesUnescaped(text, query) ==
    LET q == normalizeQuery(query)
    IN  IF q = <<>> THEN [threw |-> FALSE, count |-> 0]
        ELSE CountWith(PatternAtoms(q, 1), text)

\* the count returned, or threw when new RegExp rejects the pattern
countOccurrences(text, query) ==
    LET q == normalizeQuery(query)
    IN  IF q = <<>> THEN [threw |-> FALSE, count |-> 0]
        ELSE CountWith(PatternAtoms(EscapeRegExp(q), 1), text)

-----------------------------------------------------------------------------
(* Objects used as tables, and the order of their keys.                    *)

\* a table {} : its own keys in insertion order, and their values
EmptyTable == [order |-> <<>>, map |-> <<>>]

HasOwn(t, k) == k \in DOMAIN t.map

\* the keys normalizeNameKey can return that {} inherits from Object.prototype
InheritedKeys == {<<"c", "o", "n", "s", "t", "r", "u", "c", "t", "o", "r">>}

\* whether t[k] is truthy: an own value (a non-empty string or an array) or an inherited one
Truthy(t, k) == HasOwn(t, k) \/ k \in InheritedKeys

\* t[k] || [] for a key that is own or absent
ListAt(t, k) == IF HasOwn(t, k) THEN t.map[k] ELSE <<>>

\* t[k] = v
Put(t, k, v) ==
    [order |-> IF HasOwn(t, k) THEN t.order ELSE Append(t.order, k),
     map |-> [x \in DOMAIN t.map \cup {k} |-> IF x = k THEN v ELSE t.map[x]]]

-----------------------------------------------------------------------------
(* Ordering by date key.                                                   *)

\* the characters of the date keys of the model, in the order localeCompare gives them
Collation == <<"-", "0", "1", "2", "3", "4", "5", "6", "7", "8", "9", "a", "b", "c", "d", "e", "f", "g", "h", "i", "j", "k", "l", "m", "n", "o", "p", "q", "r", "s", "t", "u", "v", "w", "x", "y", "z">>

CharRank(c) == CHOOSE i \in 1..Len(Collation) : Collation[i] = c

\* a.localeCompare(b): negative, zero or positive
RECURSIVE localeCompare(_, _)
localeCompare(a, b) ==
    IF a = <<>> /\ b = <<>> THEN 0
    ELSE IF a = <<>> THEN -1
    ELSE IF b = <<>> THEN 1
    ELSE IF CharRank(Head(a)) < CharRank(Head(b)) THEN -1
    ELSE IF CharRank(Head(a)) > CharRank(Head(b)) THEN 1
    ELSE localeCompare(Tail(a), Tail(b))

\* the comparator (a, b) => a.dateKey.localeCompare(b.dateKey), the mutant of ByDateDesc
ByDateAsc(a, b) == localeCompare(a.dateKey, b.dateKey)

\* the comparator (a, b) => b.dateKey.localeCompare(a.dateKey)
ByDateDesc(a, b) == localeCompare(b.dateKey, a.dateKey)

\* x put into the sorted s behind every element that does not have to follow it
InsertSorted(s, x) ==
    LET later == {p \in 1..Len(s) : ByDateDesc(s[p], x) > 0}
        at == IF later = {} THEN Len(s) + 1 ELSE Min(later)
    IN  SubSeq(s, 1, at - 1) \o <<x>> \o SubSeq(s, at, Len(s))

\* Array.prototype.sort with the comparator ByDateDesc (the sort is stable)
RECURSIVE SortByDateDesc(_)
SortByDateDesc(s) ==
    IF s = <<>> THEN <<>>
    ELSE InsertSorted(SortByDateDesc(SubSeq(s, 1, Len(s) - 1)), s[Len(s)])

-----------------------------------------------------------------------------
(* Generators and power cycles: buildGeneratorsAndPowerCycles.             *)

\* const reserved
Reserved == {<<"p", "o", "w", "e", "r", " ", "c", "y", "c", "l", "e">>, <<"p", "o", "w", "e", "r", "c", "y", "c", "l", "e">>}

\* /^power\s*cycle$/i.test(title.trim())
IsPowerCycleTitle(title) ==
    LET t == toLowerCase(trim(title))
    IN  /\ Len(t) >= 10
        /\ SubSeq(t, 1, 5) = <<"p", "o", "w", "e", "r">>
        /\ SubSeq(t, Len(t) - 4, Len(t)) = <<"c", "y", "c", "l", "e">>
        /\ \A i \in 6..(Len(t) - 5) : IsSpace(t[i])

SnippetMaxLen == 140

\* the character U+2026 that ends a shortened snippet
Ellipsis == "..."

snippetFromSection(section) ==
    LET all == section.paragraphs \o section.items
    IN  IF all = <<>> THEN <<>>
        ELSE sliceTo(all[1], SnippetMaxLen)
             \o (IF Len(all[1]) > SnippetMaxLen THEN <<Ellipsis>> ELSE <<>>)

Mention(n, b) ==
    [noteId |-> n.id, filename |-> n.filename, dateKey |-> n.dateKey,
     sectionId |-> b.id, snippet |-> snippetFromSection(b)]

Event(n, item) ==
    [dateKey |-> n.dateKey, noteId |-> n.id, filename |-> n.filename, raw |-> item]

\* the three tables after the assignments of {} that open the build
FreshTables == [gi |-> EmptyTable, gd |-> EmptyTable, pc |-> EmptyTable, threw |-> FALSE]

\* t[k].push(v) after `if (!t[k]) t[k] = []`: an inherited t[k] is no array and push throws
PushTo(t, k, v) ==
    LET t1 == IF Truthy(t, k) THEN t ELSE Put(t, k, <<>>)
    IN  IF HasOwn(t1, k)
        THEN [table |-> Put(t1, k, Append(t1.map[k], v)), threw |-> FALSE]
        ELSE [table |-> t1, threw |-> TRUE]

\* the mutant of RecordDisplay in which the latest title of a key wins
RecordDisplayLatest(gd, genKey, titleTrim) == Put(gd, genKey, titleTrim)

\* if (!generatorsDisplay[genKey]) generatorsDisplay[genKey] = titleTrim
RecordDisplay(gd, genKey, titleTrim) ==
    IF Truthy(gd, genKey) THEN gd ELSE Put(gd, genKey, titleTrim)

\* the callback of the first n.blocks.forEach, for block b of note n
GeneratorPass(acc, n, b) ==
    LET titleTrim == trim(b.title)
        keyLower == toLowerCase(titleTrim)
        genKey == normalizeNameKey(titleTrim)
        gd1 == RecordDisplay(acc.gd, genKey, titleTrim)
        pushed == PushTo(acc.gi, genKey, Mention(n, b))
    IN  IF acc.threw \/ b.title = <<>> THEN acc
        ELSE IF keyLower \in Reserved THEN acc
        ELSE IF genKey = <<>> THEN acc
        ELSE [acc EXCEPT !.gd = gd1, !.gi = pushed.table, !.threw = pushed.threw]

\* the callback of (b.items || []).forEach, for item itemRaw of a section of note n
PowerCycleItem(acc, n, itemRaw) ==
    LET item == trim(itemRaw)
        key == normalizeNameKey(item)
        pushed == PushTo(acc.pc, key, Event(n, item))
    IN  IF acc.threw \/ item = <<>> THEN acc
        ELSE [acc EXCEPT !.pc = pushed.table, !.threw = pushed.threw]

RECURSIVE PowerCycleItems(_, _, _)
PowerCycleItems(acc, n, items) ==
    IF items = <<>> THEN acc
    ELSE PowerCycleItems(PowerCycleItem(acc, n, Head(items)), n, Tail(items))

\* the callback of the second n.blocks.forEach, for block b of note n
PowerCyclePass(acc, n, b) ==
    IF acc.threw \/ b.title = <<>> THEN acc
    ELSE IF IsPowerCycleTitle(b.title) THEN PowerCycleItems(acc, n, b.items)
    ELSE acc

RECURSIVE GeneratorBlocks(_, _, _)
GeneratorBlocks(acc, n, blocks) ==
    IF blocks = <<>> THEN acc
    ELSE GeneratorBlocks(GeneratorPass(acc, n, Head(blocks)), n, Tail(blocks))

RECURSIVE PowerCycleBlocks(_, _, _)
PowerCycleBlocks(acc, n, blocks) ==
    IF blocks = <<>> THEN acc
    ELSE PowerCycleBlocks(PowerCyclePass(acc, n, Head(blocks)), n, Tail(blocks))

\* notes.forEach: for each note the generator pass, then the power-cycle pass
RECURSIVE IndexNotes(_, _)
IndexNotes(acc, ns) ==
    IF ns = <<>> THEN acc
    ELSE IndexNotes(PowerCycleBlocks(GeneratorBlocks(acc, Head(ns), Head(ns).blocks),
                                     Head(ns), Head(ns).blocks),
                    Tail(ns))

\* Object.keys(t).forEach((k) => t[k].sort(...))
SortLists(t) == [t EXCEPT !.map = [k \in DOMAIN t.map |-> SortByDateDesc(t.map[k])]]

\* the mutant of buildGeneratorsAndPowerCycles that goes on from the tables it found
buildOntoFoundTables(prev, ns) ==
    LET acc == IndexNotes([prev EXCEPT !.threw = FALSE], ns)
    IN  IF acc.threw THEN acc
        ELSE [acc EXCEPT !.gi = SortLists(acc.gi), !.pc = SortLists(acc.pc)]

\* the tables buildGeneratorsAndPowerCycles leaves, and whether it threw on the way;
\* prev are the tables it found
buildGeneratorsAndPowerCycles(prev, ns) ==
    LET acc == IndexNotes(FreshTables, ns)
    IN  IF acc.threw THEN acc
        ELSE [acc EXCEPT !.gi = SortLists(acc.gi), !.pc = SortLists(acc.pc)]

-----------------------------------------------------------------------------
(* Lookup: findPowerCyclesForGeneratorKey.                                 *)

\* the largest array index, 2^32 - 2
MaxArrayIndex == <<"4", "2", "9", "4", "9", "6", "7", "2", "9", "4">>

\* whether Object.keys lists k with the integer keys: a canonical array index
IsArrayIndex(k) ==
    /\ k # <<>>
    /\ \A c \in Range(k) : IsDigit(c)
    /\ Len(k) = 1 \/ k[1] # "0"
    /\ Len(k) < Len(MaxArrayIndex)
       \/ (Len(k) = Len(MaxArrayIndex) /\ localeCompare(k, MaxArrayIndex) <= 0)

\* the integer keys among ks, ascending as numbers
RECURSIVE SortIndexKeys(_)
SortIndexKeys(ks) ==
    IF ks = {} THEN <<>>
    ELSE LET least == CHOOSE k \in ks : \A o \in ks :
                          Len(k) < Len(o) \/ (Len(k) = Len(o) /\ localeCompare(k, o) <= 0)
         IN  <<least>> \o SortIndexKeys(ks \ {least})

IsNameKey(k) == ~IsArrayIndex(k)

\* Object.keys(t): the integer keys ascending, then the others in insertion order
ObjectKeys(t) ==
    SortIndexKeys({k \in DOMAIN t.map : IsArrayIndex(k)}) \o SelectSeq(t.order, IsNameKey)

\* a.includes(b)
includes(a, b) == \E i \in 0..(Len(a) - Len(b)) : SubSeq(a, i + 1, i + Len(b)) = b

\* the fallback loop over Object.keys(powerCyclesMap), from key number i on
RECURSIVE FallbackMatches(_, _, _, _)
FallbackMatches(pcm, keys, genKey, i) ==
    IF i > Len(keys) THEN <<>>
    ELSE (IF keys[i] # <<>> /\ (includes(keys[i], genKey) \/ includes(genKey, keys[i]))
          THEN pcm.map[keys[i]] ELSE <<>>)
         \o FallbackMatches(pcm, keys, genKey, i + 1)

\* the mutant of DedupeByDate that keeps every event
KeepEveryMatch(matches, seen) == matches

\* the loop that keeps the first event of each date key
RECURSIVE DedupeByDate(_, _)
DedupeByDate(matches, seen) ==
    IF matches = <<>> THEN <<>>
    ELSE IF Head(matches).dateKey \in seen THEN DedupeByDate(Tail(matches), seen)
    ELSE <<Head(matches)>> \o DedupeByDate(Tail(matches), seen \cup {Head(matches).dateKey})

\* the mutant of findPowerCyclesForGeneratorKey whose fallback loop always runs
findPowerCyclesMerging(pcm, genKey) ==
    LET direct == IF HasOwn(pcm, genKey) THEN pcm.map[genKey] ELSE <<>>
        matches == direct \o FallbackMatches(pcm, ObjectKeys(pcm), genKey, 1)
    IN  IF Truthy(pcm, genKey) /\ ~HasOwn(pcm, genKey)
        THEN [threw |-> TRUE, out |-> <<>>]
        ELSE [threw |-> FALSE, out |-> SortByDateDesc(DedupeByDate(matches, {}))]

\* the events returned, or threw when powerCyclesMap[genKey] is inherited and cannot be spread
findPowerCyclesForGeneratorKey(pcm, genKey) ==
    LET direct == IF HasOwn(pcm, genKey) THEN pcm.map[genKey] ELSE <<>>
        matches == IF direct # <<>> THEN direct
                   ELSE FallbackMatches(pcm, ObjectKeys(pcm), genKey, 1)
    IN  IF Truthy(pcm, genKey) /\ ~HasOwn(pcm, genKey)
        THEN [threw |-> TRUE, out |-> <<>>]
        ELSE [threw |-> FALSE, out |-> SortByDateDesc(DedupeByDate(matches, {}))]

-----------------------------------------------------------------------------
(* The program's state after construction.                                 *)

\* let activeNoteId = null (note ids are the positive manifest positions)
NoNote == 0

NothingShown == [visible |-> FALSE, key |-> <<>>, mentions |-> <<>>, power |-> <<>>]

\* the in-note search field as the page delivers it: disabled
InNoteSearchInit == inNoteSearchDisabled = TRUE

AppInit ==
    /\ loadPc = "manifest"
    /\ manifest = <<>>
    /\ fetchSt = <<>>
    /\ fetched = <<>>
    /\ notes = <<>>
    /\ notesByDateKey = EmptyTable
    /\ activeNoteId = NoNote
    /\ InNoteSearchInit
    /\ loadErrors = 0
    /\ generatorsIndex = EmptyTable
    /\ generatorsDisplay = EmptyTable
    /\ powerCyclesMap = EmptyTable
    /\ genCards = {}
    /\ shown = NothingShown
    /\ view = "notes"

-----------------------------------------------------------------------------
(* The note source: the files the server holds under ./notes/.             *)

NoteFiles ==
    << [filename |-> <<"2", "0", "2", "4", "-", "3", "-", "1", ".", "t", "x", "t">>,
        text |-> <<"G", "e", "n", "e", "r", "a", "t", "o", "r", " ", "A", ":", "\n", "-", " ", "o", "k", "\n", "P", "o", "w", "e", "r", " ", "C", "y", "c", "l", "e", ":", "\n", "-", " ", "G", "e", "n", "e", "r", "a", "t", "o", "r", " ", "A", "\n", "-", " ", "S", "i", "t", "e", " ", "B", "\n", "s", "e", "e", "n">>],
       [filename |-> <<"2", "0", "2", "4", "-", "0", "3", "-", "0", "1", ".", "t", "x", "t">>,
        text |-> <<"g", "e", "n", "e", "r", "a", "t", "o", "r", " ", " ", "a", ":", "\n", "P", "o", "w", "e", "r", " ", " ", "C", "y", "c", "l", "e", ":", "\n", "-", " ", "S", "i", "t", "e", " ", "B">>],
       [filename |-> <<"s", "t", "a", "n", "d", "u", "p", ".", "t", "x", "t">>,
        text |-> <<"S", "i", "t", "e", " ", "B", ":", "\n", "C", "o", "n", "s", "t", "r", "u", "c", "t", "o", "r", ":", "\n", "-", " ", "w">>],
       [filename |-> <<"2", "0", "2", "4", "-", "0", "3", "-", "0", "2", ".", "t", "x", "t">>,
        text |-> <<"P", "o", "w", "e", "r", " ", "C", "y", "c", "l", "e", ":", "\n", "-", " ", "G", "e", "n", "e", "r", "a", "t", "o", "r", "\n", "-", " ", "?", "\n", "P", "o", "w", "e", "r", "-", "C", "y", "c", "l", "e", ":", "\n", "-", " ", "x", "\n", "G", "e", "n", "e", "r", "a", "t", "o", "r", " ", "A", ":">>],
       [filename |-> <<"2", "0", "2", "4", "-", "2", "-", "9", ".", "t", "x", "t">>,
        text |-> <<"?", "?", ":", "\n", "-", " ", "a", "\n", "S", "i", "t", "e", " ", "B", ":", "\n", "G", "e", "n", "e", "r", "a", "t", "o", "r", " ", "A", ":", "\n", "-", " ", "q", "\n", "P", "O", "W", "E", "R", "C", "Y", "C", "L", "E", ":", "\n", "-", " ", "g", "e", "n", "e", "r", "a", "t", "o", "r", " ", "a", "\n", "-", " ", "s", "i", "t", "e", "-", "b">>],
       [filename |-> <<"2", "0", "2", "3", "-", "1", "2", "-", "3", "1", ".", "t", "x", "t">>,
        text |-> <<"P", "o", "w", "e", "r", " ", "C", "y", "c", "l", "e", ":", "\n", "-", " ", "S", "i", "t", "e", " ", "B", "\n", "-", " ", "C", "o", "n", "s", "t", "r", "u", "c", "t", "o", "r", "\n", "-", " ", "G", "e", "n", "e", "r", "a", "t", "o", "r", " ", "A", "\n", "G", "e", "n", "e", "r", "a", "t", "o", "r", " ", "A", ":">>] >>

FileNames == {NoteFiles[i].filename : i \in 1..Len(NoteFiles)}

\* the text the server holds for filename
TextOf(filename) ==
    NoteFiles[CHOOSE i \in 1..Len(NoteFiles) : NoteFiles[i].filename = filename].text

\* the files the loader is run against
LoadFileNames == {<<"2", "0", "2", "4", "-", "3", "-", "1", ".", "t", "x", "t">>, <<"2", "0", "2", "4", "-", "0", "3", "-", "0", "1", ".", "t", "x", "t">>, <<"s", "t", "a", "n", "d", "u", "p", ".", "t", "x", "t">>}

\* the arrays notes.json may hold
Manifests == SeqsUpTo(LoadFileNames, MaxFiles)

-----------------------------------------------------------------------------
(* Loading: loadNotes and init.                                            *)

\* the object the mapper of filenames.map returns for the file at manifest position i;
\* crypto.randomUUID() gives every note an id of its own, here the position
NoteObject(i, filename, text) ==
    [id |-> i, filename |-> filename, dateKey |-> dateKeyFromFilename(filename),
     text |-> text, blocks |-> parseNoteToBlocks(text, filename)]

RECURSIVE IndexByDateKey(_, _)
\* notes.forEach((n) => notesByDateKey[n.dateKey] = n.id)
IndexByDateKey(t, ns) ==
    IF ns = <<>> THEN t ELSE IndexByDateKey(Put(t, Head(ns).dateKey, Head(ns).id), Tail(ns))

\* the value loadNotes assigns to notes when the files of the array m have all arrived
LoadedNotes(m) == SortByDateDesc([i \in 1..Len(m) |-> NoteObject(i, m[i], TextOf(m[i]))])

\* the mutant of setActiveNote without the return for an id that no note has
setActiveNoteUnchecked(ns, active, id) == id

\* the value of activeNoteId after setActiveNote(id) with the notes ns
setActiveNote(ns, active, id) ==
    IF \E k \in 1..Len(ns) : ns[k].id = id THEN id ELSE active

\* the value of els.inNoteSearch.disabled after setActiveNote(id) with the notes ns
inNoteSearchAfter(ns, disabled, id) ==
    IF \E k \in 1..Len(ns) : ns[k].id = id THEN FALSE ELSE disabled

\* the rest of loadNotes once Promise.all has fulfilled with objs, and init's try block
FinishLoad(objs) ==
    LET sorted == SortByDateDesc(objs)
    IN  /\ notes' = sorted
        /\ notesByDateKey' = IndexByDateKey(EmptyTable, sorted)
        /\ activeNoteId' = IF Len(sorted) > 0
                           THEN setActiveNote(sorted, activeNoteId, sorted[1].id)
                           ELSE activeNoteId
        /\ inNoteSearchDisabled' = IF Len(sorted) > 0
                                   THEN inNoteSearchAfter(sorted, inNoteSearchDisabled, sorted[1].id)
                                   ELSE inNoteSearchDisabled
        /\ loadPc' = "done"
        /\ UNCHANGED loadErrors

\* init's catch block
SurfaceLoadError ==
    /\ loadErrors' = loadErrors + 1
    /\ loadPc' = "failed"
    /\ UNCHANGED <<notes, notesByDateKey, activeNoteId, inNoteSearchDisabled>>

\* the fetch of notes.json rejects or answers with a status that is not ok
ManifestUnavailable ==
    /\ loadPc = "manifest"
    /\ SurfaceLoadError
    /\ UNCHANGED <<manifest, fetchSt, fetched, generatorsIndex, generatorsDisplay,
                   powerCyclesMap, genCards, shown, view, fnVars>>

\* notes.json is no JSON or is not an array
ManifestNotAList ==
    /\ loadPc = "manifest"
    /\ SurfaceLoadError
    /\ manifest' = <<"not a list">>
    /\ UNCHANGED <<fetchSt, fetched, generatorsIndex, generatorsDisplay,
                   powerCyclesMap, genCards, shown, view, fnVars>>

\* notes.json arrives as the array m: every note fetch is issued
ManifestArrives(m) ==
    /\ loadPc = "manifest"
    /\ manifest' = m
    /\ fetchSt' = [i \in 1..Len(m) |-> "pending"]
    /\ fetched' = [i \in 1..Len(m) |-> <<>>]
    /\ IF m = <<>>
       THEN FinishLoad(<<>>)
       ELSE loadPc' = "fetching" /\ UNCHANGED <<notes, notesByDateKey, activeNoteId, inNoteSearchDisabled, loadErrors>>
    /\ UNCHANGED <<generatorsIndex, generatorsDisplay, powerCyclesMap, genCards, shown,
                   view, fnVars>>

\* the response for the file at position i is ok: its text is requested
NoteResponseOk(i) ==
    /\ loadPc \in {"fetching", "failed"}
    /\ fetchSt[i] = "pending"
    /\ fetchSt' = [fetchSt EXCEPT ![i] = "body"]
    /\ UNCHANGED <<loadPc, manifest, fetched, notes, notesByDateKey, activeNoteId, inNoteSearchDisabled, loadErrors,
                   generatorsIndex, generatorsDisplay, powerCyclesMap, genCards, shown,
                   view, fnVars>>

\* the mutant of NoteFails in which the other notes still make up the collection
NoteFailsSkipped(i) ==
    /\ loadPc \in {"fetching", "failed"}
    /\ fetchSt[i] \in {"pending", "body"}
    /\ fetchSt' = [fetchSt EXCEPT ![i] = "fail"]
    /\ LET rest == {k \in 1..Len(manifest) : k # i}
       IN  IF loadPc = "fetching" /\ \A k \in rest : fetchSt[k] \in {"ok", "fail"}
           THEN FinishLoad(SelectSeq(fetched, LAMBDA o : o # <<>>))
           ELSE UNCHANGED <<loadPc, notes, notesByDateKey, activeNoteId, inNoteSearchDisabled, loadErrors>>
    /\ UNCHANGED <<manifest, fetched, generatorsIndex, generatorsDisplay, powerCyclesMap,
                   genCards, shown, view, fnVars>>

\* the fetch of the file at position i rejects, answers not ok, or its text() rejects:
\* the mapper throws, Promise.all rejects with the first such error
NoteFails(i) ==
    /\ loadPc \in {"fetching", "failed"}
    /\ fetchSt[i] \in {"pending", "body"}
    /\ fetchSt' = [fetchSt EXCEPT ![i] = "fail"]
    /\ IF loadPc = "fetching"
       THEN SurfaceLoadError
       ELSE UNCHANGED <<loadPc, notes, notesByDateKey, activeNoteId, inNoteSearchDisabled, loadErrors>>
    /\ UNCHANGED <<manifest, fetched, generatorsIndex, generatorsDisplay, powerCyclesMap,
                   genCards, shown, view, fnVars>>

\* the text of the file at position i arrives: the mapper returns its note object, and
\* when it was the last one Promise.all fulfils
NoteBodyArrives(i) ==
    /\ loadPc \in {"fetching", "failed"}
    /\ fetchSt[i] = "body"
    /\ fetchSt' = [fetchSt EXCEPT ![i] = "ok"]
    /\ fetched' = [fetched EXCEPT ![i] = NoteObject(i, manifest[i], TextOf(manifest[i]))]
    /\ IF loadPc = "fetching" /\ \A k \in 1..Len(manifest) : fetchSt'[k] = "ok"
       THEN FinishLoad(fetched')
       ELSE UNCHANGED <<loadPc, notes, notesByDateKey, activeNoteId, inNoteSearchDisabled, loadErrors>>
    /\ UNCHANGED <<manifest, generatorsIndex, generatorsDisplay, powerCyclesMap, genCards,
                   shown, view, fnVars>>

-----------------------------------------------------------------------------
(* The click handlers.                                                     *)

loadVars == <<loadPc, manifest, fetchSt, fetched, notes, notesByDateKey, loadErrors>>

\* a click on the file item of note id (renderFileList, lines 223-229)
FileItemClick(id) ==
    /\ \E k \in 1..Len(notes) : notes[k].id = id
    /\ view' = "notes"
    /\ activeNoteId' = setActiveNote(notes, activeNoteId, id)
    /\ inNoteSearchDisabled' = inNoteSearchAfter(notes, inNoteSearchDisabled, id)
    /\ UNCHANGED <<loadVars, generatorsIndex, generatorsDisplay, powerCyclesMap, genCards,
                   shown, fnVars>>

\* a click on the Notes tab
TabNotesClick ==
    /\ view' = "notes"
    /\ UNCHANGED <<loadVars, activeNoteId, inNoteSearchDisabled, generatorsIndex, generatorsDisplay, powerCyclesMap,
                   genCards, shown, fnVars>>

\* the mutant of TabGeneratorsClick that renders the view although the build threw
TabGeneratorsClickAnyway ==
    LET built == buildGeneratorsAndPowerCycles(
                     [gi |-> generatorsIndex, gd |-> generatorsDisplay, pc |-> powerCyclesMap],
                     notes)
    IN  /\ generatorsIndex' = built.gi
        /\ generatorsDisplay' = built.gd
        /\ powerCyclesMap' = built.pc
        /\ genCards' = DOMAIN built.gi.map
        /\ shown' = [shown EXCEPT !.visible = FALSE]
        /\ view' = "generators"
        /\ UNCHANGED <<loadVars, activeNoteId, inNoteSearchDisabled, fnVars>>

\* a click on the Generators tab: the build, renderGeneratorsView (which builds again
\* and lists one card per key of generatorsIndex), showView("generators"); a build
\* that throws ends the handler
TabGeneratorsClick ==
    LET first == buildGeneratorsAndPowerCycles(
                     [gi |-> generatorsIndex, gd |-> generatorsDisplay, pc |-> powerCyclesMap],
                     notes)
        built == IF first.threw THEN first ELSE buildGeneratorsAndPowerCycles(first, notes)
    IN  /\ generatorsIndex' = built.gi
        /\ generatorsDisplay' = built.gd
        /\ powerCyclesMap' = built.pc
        /\ IF built.threw
           THEN UNCHANGED <<genCards, shown, view>>
           ELSE /\ genCards' = DOMAIN built.gi.map
                /\ shown' = [shown EXCEPT !.visible = FALSE]
                /\ view' = "generators"
        /\ UNCHANGED <<loadVars, activeNoteId, inNoteSearchDisabled, fnVars>>

\* a click on the generator card of key genKey: showGeneratorMentionsByKey(genKey)
GeneratorCardClick(genKey) ==
    LET mentions == ListAt(generatorsIndex, genKey)
        found == findPowerCyclesForGeneratorKey(powerCyclesMap, genKey)
    IN  /\ view = "generators"
        /\ genKey \in genCards
        /\ IF found.threw \/ (mentions = <<>> /\ found.out = <<>>)
           THEN UNCHANGED shown
           ELSE shown' = [visible |-> TRUE, key |-> genKey,
                          mentions |-> mentions, power |-> found.out]
        /\ UNCHANGED <<loadVars, activeNoteId, inNoteSearchDisabled, generatorsIndex, generatorsDisplay,
                       powerCyclesMap, genCards, view, fnVars>>

\* a click on the i-th mention item of the panel
MentionClick(i) ==
    /\ view = "generators"
    /\ shown.visible
    /\ i \in 1..Len(shown.mentions)
    /\ view' = "notes"
    /\ activeNoteId' = setActiveNote(notes, activeNoteId, shown.mentions[i].noteId)
    /\ inNoteSearchDisabled' = inNoteSearchAfter(notes, inNoteSearchDisabled, shown.mentions[i].noteId)
    /\ UNCHANGED <<loadVars, generatorsIndex, generatorsDisplay, powerCyclesMap, genCards,
                   shown, fnVars>>

\* a click on the i-th power-cycle date of the panel
PowerDateClick(i) ==
    /\ view = "generators"
    /\ shown.visible
    /\ i \in 1..Len(shown.power)
    /\ view' = "notes"
    /\ activeNoteId' = setActiveNote(notes, activeNoteId, shown.power[i].noteId)
    /\ inNoteSearchDisabled' = inNoteSearchAfter(notes, inNoteSearchDisabled, shown.power[i].noteId)
    /\ UNCHANGED <<loadVars, generatorsIndex, generatorsDisplay, powerCyclesMap, genCards,
                   shown, fnVars>>

Init ==
    /\ AppInit
    /\ fnPc = "idle"
    /\ fnArgs = <<>>
    /\ fnOut = <<>>

Next ==
    \/ ManifestUnavailable
    \/ ManifestNotAList
    \/ \E m \in Manifests : ManifestArrives(m)
    \/ \E i \in 1..Len(fetchSt) : NoteResponseOk(i)
    \/ \E i \in 1..Len(fetchSt) : NoteFails(i)
    \/ \E i \in 1..Len(fetchSt) : NoteBodyArrives(i)
    \/ \E id \in 1..MaxFiles : FileItemClick(id)
    \/ TabNotesClick
    \/ TabGeneratorsClick
    \/ \E genKey \in genCards : GeneratorCardClick(genKey)
    \/ \E i \in 1..Len(shown.mentions) : MentionClick(i)
    \/ \E i \in 1..Len(shown.power) : PowerDateClick(i)

Spec == Init /\ [][Next]_vars

-----------------------------------------------------------------------------
(* Properties of the loader and of the handlers.                           *)

\* some step of the load has failed: notes.json was unavailable or no list, or the
\* fetch of some note failed
LoadHasFailed ==
    \/ loadPc = "failed"
    \/ \E i \in 1..Len(fetchSt) : fetchSt[i] = "fail"

\* notes holds one note per filename of the manifest, with the text of that file
NotesComplete ==
    /\ Len(notes) = Len(manifest)
    /\ \A i \in 1..Len(manifest) :
          \E k \in 1..Len(notes) :
              /\ notes[k].id = i
              /\ notes[k].filename = manifest[i]
              /\ notes[k].text = TextOf(manifest[i])

\* C4: the load is all-or-nothing: notes is the empty collection or the complete set of
\* notes of the manifest; when the manifest or any note fetch has failed, in whatever
\* order the fetches end, notes is unchanged, no note is active and exactly one load
\* error has been surfaced.
C4_LoadAllOrNothing ==
    /\ notes = <<>> \/ (loadPc = "done" /\ NotesComplete)
    /\ loadPc = "done" => loadErrors = 0
    /\ LoadHasFailed => notes = <<>> /\ activeNoteId = NoNote /\ loadErrors = 1

\* of two note fetches one has delivered its note and the other has failed
C4_Witness ==
    /\ loadPc = "failed"
    /\ Len(fetchSt) = 2
    /\ \E i, j \in 1..2 : fetchSt[i] = "ok" /\ fetched[i] # <<>> /\ fetchSt[j] = "fail"
    /\ notes = <<>>
    /\ loadErrors = 1

\* C5: a reader of the three tables (the cards of renderGeneratorsView, the panel of
\* showGeneratorMentionsByKey, findPowerCyclesForGeneratorKey under both) finds the
\* complete tables of a build of the notes, never tables a build left partly filled.
C5_ReadersSeeCompleteTables ==
    LET built == buildGeneratorsAndPowerCycles(FreshTables, notes)
    IN  (genCards # {} \/ shown.visible) =>
            /\ ~built.threw
            /\ generatorsIndex = built.gi
            /\ generatorsDisplay = built.gd
            /\ powerCyclesMap = built.pc
            /\ genCards = DOMAIN built.gi.map
            /\ shown.visible =>
                  /\ shown.mentions = ListAt(built.gi, shown.key)
                  /\ shown.power = findPowerCyclesForGeneratorKey(built.pc, shown.key).out

\* the panel shows the mentions and power cycles of a key of tables built from two notes
C5_Witness ==
    /\ shown.visible
    /\ Len(notes) = 2
    /\ Len(shown.mentions) = 2
    /\ Len(shown.power) >= 1
    /\ Cardinality(genCards) >= 2

\* a build has thrown and left its tables partly filled, with no reader to see them
PartialTablesUnread ==
    /\ buildGeneratorsAndPowerCycles(FreshTables, notes).threw
    /\ generatorsIndex # EmptyTable
    /\ genCards = {}
    /\ ~shown.visible


\* the ids of the notes in notes
NoteIds == {notes[k].id : k \in 1..Len(notes)}

-----------------------------------------------------------------------------
(* parseNoteToBlocks as a pure function: every raw text over a small       *)
(* alphabet, and longer texts that exercise tabs, CRLF and repeated titles.*)

ParseAlphabet == {"a", ":", "-", " ", "\n"}

ParseFilenames == {<<"n", ".", "t", "x", "t">>, <<"2", "0", "2", "4", "-", "3", "-", "1", ".", "t", "x", "t">>}

ExtraTexts ==
    { <<"S", "t", "a", "t", "u", "s", ":">>,
      <<"-", " ", "R", "e", "p", "l", "a", "c", "e", "d", " ", "f", "i", "l", "t", "e", "r", "\n", "-", " ", "C", "h", "e", "c", "k", "e", "d", " ", "o", "i", "l">>,
      <<"A", ":", "\r", "\n", "\t", "x", "\r", "\n", "A", ":", "\n", "-", " ", "y">>,
      <<"G", "e", "n", " ", "A", ":", "\n", "-", " ", "p", "\n", "g", "e", "n", " ", " ", "a", ":", "\n", "-", " ", "q">>,
      <<":", "\n", "-", " ", "z", "\n", "N", "o", "t", "e", "s", ":", "\n", "w">>,
      <<"T", "i", "m", "e", ":", " ", "1", "0", ":", "0", "0", ":", "\n", "-", "x", ":", "\n", "-", " ", "y", ":">> }

ParseInit ==
    /\ AppInit
    /\ fnPc = "call"
    /\ fnOut = <<>>
    /\ \/ \E t \in SeqsUpTo(ParseAlphabet, MaxTextLen) :
             fnArgs = [text |-> t, filename |-> <<"n", ".", "t", "x", "t">>]
       \/ \E t \in ExtraTexts, f \in ParseFilenames :
             fnArgs = [text |-> t, filename |-> f]

ParseCall ==
    /\ fnPc = "call"
    /\ fnOut' = parseNoteToBlocks(fnArgs.text, fnArgs.filename)
    /\ fnPc' = "ret"
    /\ UNCHANGED <<fnArgs, appVars>>

ParseNext == ParseCall

SpecParse == ParseInit /\ [][ParseNext]_vars

\* C1: for every raw text (empty, blank-only, heading-only, heading-less) and every
\* filename, parseNoteToBlocks returns at least one section.
C1_ParseNonEmpty == fnPc = "ret" => Len(fnOut) >= 1

\* the parse of a blank-only text has returned the one synthetic "Notes" section
C1_Witness ==
    /\ fnPc = "ret"
    /\ fnArgs.text = <<" ", "\n", " ">>
    /\ Len(fnOut) = 1
    /\ fnOut[1].title = NotesTitle

\* C2: the ids of the sections parseNoteToBlocks returns for one note are pairwise
\* distinct, also when two headings have the same title or titles that slug alike.
C2_IdsDistinct ==
    fnPc = "ret" => \A i, j \in 1..Len(fnOut) : i # j => fnOut[i].id # fnOut[j].id

\* the lines of the text as the loop sees them: tabs replaced, trimmed
TrimmedLines(text) ==
    LET lines == SplitLines(text)
    IN  [i \in 1..Len(lines) |-> trim(ReplaceTabs(lines[i]))]

\* the lines of the text that are not blank, trimmed
NonBlankLines(text) == SelectSeq(TrimmedLines(text), LAMBDA t : t # <<>>)

\* a line that ends with a colon and does not begin with the marker
IsHeadingLine(t, marker) == endsWith(t, <<":">>) /\ ~startsWith(t, marker)

\* the titles of the sections of a text: "Notes" for what precedes the first heading (or
\* for a text without content), then every heading line less its final colon
TitlesOf(text, marker) ==
    LET lines == NonBlankLines(text)
        heads == SelectSeq(lines, LAMBDA t : IsHeadingLine(t, marker))
        titles == [i \in 1..Len(heads) |-> SubSeq(heads[i], 1, Len(heads[i]) - 1)]
    IN  IF lines = <<>> \/ ~IsHeadingLine(lines[1], marker)
        THEN <<NotesTitle>> \o titles ELSE titles

\* the titles of the sections returned
ReturnedTitles == [i \in 1..Len(fnOut) |-> fnOut[i].title]

\* C17 as claimed: a non-blank line is a heading if and only if, trimmed, it ends with
\* ":" and does not begin with "- "; every such line closes the open section and opens
\* one titled with the line less its final colon.
C17_HeadingUnlessBulletMarker ==
    fnPc = "ret" => ReturnedTitles = TitlesOf(fnArgs.text, <<"-", " ">>)

\* C17 as amended: a non-blank line is a heading if and only if, trimmed, it ends with
\* ":" and does not begin with "-"; every such line closes the open section and opens
\* one titled with the line less its final colon.
C17_HeadingUnlessHyphen ==
    fnPc = "ret" => ReturnedTitles = TitlesOf(fnArgs.text, <<"-">>)

\* a line that ends with a colon and begins with a hyphen has not opened a section,
\* and the heading after it has
C17_Witness ==
    /\ fnPc = "ret"
    /\ fnArgs.text = <<"-", ":", "\n", "a", ":">>
    /\ ReturnedTitles = <<NotesTitle, <<"a">>>>
    /\ fnOut[1].paragraphs = <<<<"-", ":">>>>

\* the lines joined with line feeds
RECURSIVE JoinLines(_)
JoinLines(lines) ==
    IF lines = <<>> THEN <<>>
    ELSE IF Len(lines) = 1 THEN lines[1]
    ELSE lines[1] \o <<"\n">> \o JoinLines(Tail(lines))

\* the lines with the line blank put in after the first p of them
WithBlankAt(lines, p, blank) == SubSeq(lines, 1, p) \o <<blank>> \o SubSeq(lines, p + 1, Len(lines))

BlankLines == {<<>>, <<" ">>, <<" ", " ">>}

\* C18: blank lines close no section: a blank line (empty or of spaces) put in at any
\* position, or every blank line taken out, leaves the result of parseNoteToBlocks
\* as it is.
C18_BlankLinesChangeNothing ==
    fnPc = "ret" =>
        LET lines == SplitLines(fnArgs.text)
            kept == SelectSeq(lines, LAMBDA l : trim(ReplaceTabs(l)) # <<>>)
        IN  /\ parseNoteToBlocks(JoinLines(kept), fnArgs.filename) = fnOut
            /\ \A p \in 0..Len(lines), blank \in BlankLines :
                  parseNoteToBlocks(JoinLines(WithBlankAt(lines, p, blank)), fnArgs.filename)
                      = fnOut

\* a text with a blank line between two paragraphs has given one section with both
C18_Witness ==
    /\ fnPc = "ret"
    /\ fnArgs.text = <<"a", "\n", " ", "\n", "a">>
    /\ Len(fnOut) = 1
    /\ fnOut[1].paragraphs = << <<"a">>, <<"a">> >>

\* the number of the section that holds line i of the non-blank lines: one for what
\* precedes the first heading, and one more for every heading up to the line
SectionOfLine(lines, i) ==
    (IF lines # <<>> /\ ~IsHeadingLine(lines[1], <<"-">>) THEN 1 ELSE 0)
    + Cardinality({h \in 1..i : IsHeadingLine(lines[h], <<"-">>)})

IsBulletLine(t) == ~IsHeadingLine(t, <<"-">>) /\ startsWith(t, <<"-", " ">>)

IsParagraphLine(t) == ~IsHeadingLine(t, <<"-">>) /\ ~startsWith(t, <<"-", " ">>)

\* the numbers of the lines that belong to section s
LinesOfSection(lines, s) ==
    SelectSeq([i \in 1..Len(lines) |-> i], LAMBDA i : SectionOfLine(lines, i) = s)

\* the bullets of section s, their marker taken off, in input order
BulletsOfSection(lines, s) ==
    LET own == SelectSeq(LinesOfSection(lines, s), LAMBDA i : IsBulletLine(lines[i]))
    IN  [k \in 1..Len(own) |-> SubSeq(lines[own[k]], 3, Len(lines[own[k]]))]

\* the paragraphs of section s, in input order
ParagraphsOfSection(lines, s) ==
    LET own == SelectSeq(LinesOfSection(lines, s), LAMBDA i : IsParagraphLine(lines[i]))
    IN  [k \in 1..Len(own) |-> lines[own[k]]]

\* C19: content that precedes every heading makes one implicit section "Notes", the
\* first one returned, with those bullets (marker taken off) and paragraphs in input
\* order; every bullet and paragraph line is in exactly one section, the one its
\* nearest preceding heading opened.
C19_ContentUnderNearestHeading ==
    fnPc = "ret" =>
        LET lines == NonBlankLines(fnArgs.text)
        IN  /\ (lines # <<>> /\ ~IsHeadingLine(lines[1], <<"-">>)) => fnOut[1].title = NotesTitle
            /\ \A s \in 1..Len(fnOut) :
                  /\ fnOut[s].items = BulletsOfSection(lines, s)
                  /\ fnOut[s].paragraphs = ParagraphsOfSection(lines, s)
            /\ \A i \in 1..Len(lines) : SectionOfLine(lines, i) \in 1..Len(fnOut)

\* two bullets without a heading have given one section "Notes" that lists both
C19_Witness ==
    /\ fnPc = "ret"
    /\ fnArgs.text = <<"-", " ", "R", "e", "p", "l", "a", "c", "e", "d", " ", "f", "i", "l", "t", "e", "r", "\n", "-", " ", "C", "h", "e", "c", "k", "e", "d", " ", "o", "i", "l">>
    /\ Len(fnOut) = 1
    /\ fnOut[1].title = NotesTitle
    /\ fnOut[1].items = <<<<"R", "e", "p", "l", "a", "c", "e", "d", " ", "f", "i", "l", "t", "e", "r">>, <<"C", "h", "e", "c", "k", "e", "d", " ", "o", "i", "l">>>>
    /\ fnOut[1].paragraphs = <<>>

-----------------------------------------------------------------------------
(* highlightHtml as a pure function: every markup over a small alphabet    *)
(* against queries that occur in text, in tags and across their borders.   *)

HtmlAlphabet == {"<", ">", "a", "A"}

HlQueries ==
    { <<>>, <<" ">>, <<"a">>, <<"A">>, <<" ", "a", " ">>, <<"a", "a">>, <<"<">>, <<">">>, <<"a", "<">>, <<">", "a">>, <<"<", "a", ">">> }

HlInit ==
    /\ AppInit
    /\ fnPc = "call"
    /\ fnOut = <<>>
    /\ \E h \in SeqsUpTo(HtmlAlphabet, MaxHtmlLen), q \in HlQueries :
          fnArgs = [html |-> h, query |-> q]

HlCall ==
    /\ fnPc = "call"
    /\ fnOut' = highlightHtml(fnArgs.html, fnArgs.query)
    /\ fnPc' = "ret"
    /\ UNCHANGED <<fnArgs, appVars>>

HlNext == HlCall

SpecHl == HlInit /\ [][HlNext]_vars

IsMarker(x) == x \in {MarkOpen, MarkClose}

IsChar(x) == ~IsMarker(x)

\* the number of characters of out before its element p
CharsBefore(out, p) == Cardinality({k \in 1..(p - 1) : IsChar(out[k])})

\* the regions of markup delimited by angle brackets, leftmost first and disjoint
TagSpans(html) ==
    {<<i, TagEnd(html, i)>> : i \in {i \in 1..Len(html) :
        /\ TagEnd(html, i) # 0
        /\ \A k \in 1..(i - 1) : TagEnd(html, k) < i}}

\* the positions of the markup that out encloses between an opening and a closing marker
MarkedPositions(out) ==
    {CharsBefore(out, k) + 1 : k \in {k \in 1..Len(out) : IsChar(out[k]) /\
        \E o \in 1..(k - 1) : out[o] = MarkOpen /\ \A c \in o..k : out[c] # MarkClose}}

\* C6: removing the inserted markers from highlightHtml(markup, query) gives the markup
\* back; every region delimited by angle brackets comes out verbatim, with no marker
\* inside it and none of its characters highlighted, so no match crosses a tag boundary.
C6_HighlightKeepsMarkup ==
    fnPc = "ret" =>
        /\ SelectSeq(fnOut, IsChar) = fnArgs.html
        /\ \A span \in TagSpans(fnArgs.html) :
              /\ MarkedPositions(fnOut) \cap (span[1]..span[2]) = {}
              /\ \A p \in 1..Len(fnOut) : IsMarker(fnOut[p]) =>
                    ~(span[1] <= CharsBefore(fnOut, p) /\ CharsBefore(fnOut, p) < span[2])

\* a query that occurs both inside a tag and in the text after it has been highlighted
\* in the text only
C6_Witness ==
    /\ fnPc = "ret"
    /\ fnArgs.html = <<"<", "a", ">", "A", "a">>
    /\ fnArgs.query = <<" ", "a", " ">>
    /\ fnOut = <<"<", "a", ">">> \o <<MarkOpen, "A", MarkClose, MarkOpen, "a", MarkClose>>

-----------------------------------------------------------------------------
(* countOccurrences as a function of its arguments.                        *)

\* longest text searched
MaxCountLen == 3

\* longest query
MaxCountQueryLen == 2

CountAlphabet == {"a", "A", ".", "("}

CountQueryAlphabet == {"a", "A", ".", "(", "\\", " "}

CountInit ==
    /\ AppInit
    /\ fnPc = "call"
    /\ fnOut = <<>>
    /\ \E text \in SeqsUpTo(CountAlphabet, MaxCountLen),
          query \in SeqsUpTo(CountQueryAlphabet, MaxCountQueryLen) :
          fnArgs = [text |-> text, query |-> query]

\* the count of the query in the text, and the text highlighted as markup
CountCall ==
    /\ fnPc = "call"
    /\ fnOut' = [counted |-> countOccurrences(fnArgs.text, fnArgs.query),
                 html |-> highlightHtml(fnArgs.text, fnArgs.query)]
    /\ fnPc' = "ret"
    /\ UNCHANGED <<fnArgs, appVars>>

CountNext == CountCall

SpecCount == CountInit /\ [][CountNext]_vars

\* the positions at which q occurs in the text, letter case aside
OccurrencesOf(q, text) ==
    {i \in 1..(Len(text) - Len(q) + 1) : toLowerCase(SubSeq(text, i, i + Len(q) - 1)) = toLowerCase(q)}

\* no two of the occurrences at the positions P overlap
NonOverlapping(P, n) == \A i, j \in P : i < j => i + n <= j

\* the greatest number of occurrences of q in the text of which no two overlap
LiteralOccurrences(q, text) ==
    LET sets == {P \in SUBSET OccurrencesOf(q, text) : NonOverlapping(P, Len(q))}
    IN  Max({Cardinality(P) : P \in sets})

\* C16: countOccurrences(text, query) is the number of non-overlapping occurrences in
\* the text, letter case aside, of the trimmed and lowercased query taken literally;
\* special characters of the query cause no error; a blank query counts 0 and leaves
\* the markup given to highlightHtml unchanged.
C16_CountsLiteralOccurrences ==
    fnPc = "ret" =>
        LET q == normalizeQuery(fnArgs.query)
        IN  /\ ~fnOut.counted.threw
            /\ q # <<>> => fnOut.counted.count = LiteralOccurrences(q, fnArgs.text)
            /\ q = <<>> => fnOut.counted.count = 0 /\ fnOut.html = fnArgs.text

\* a query of special characters has been counted where it occurs literally, beside
\* text it would match as a pattern
C16_Witness ==
    /\ fnPc = "ret"
    /\ fnArgs.query = <<" ", ".">>
    /\ fnArgs.text = <<"a", ".", "A">>
    /\ fnOut.counted.count = 1

-----------------------------------------------------------------------------
(* buildGeneratorsAndPowerCycles as a function of the loaded notes.        *)

BuildInit ==
    /\ AppInit
    /\ fnPc = "call"
    /\ fnOut = <<>>
    /\ \E m \in SeqsUpTo(FileNames, MaxIndexedNotes) : fnArgs = [notes |-> LoadedNotes(m)]

BuildCall ==
    /\ fnPc = "call"
    /\ fnOut' = buildGeneratorsAndPowerCycles(FreshTables, fnArgs.notes)
    /\ fnPc' = "ret"
    /\ UNCHANGED <<fnArgs, appVars>>

\* one more call with the same notes, over the tables the call before left
BuildAgain ==
    /\ fnPc \in {"ret", "again"}
    /\ fnOut' = buildGeneratorsAndPowerCycles(fnOut, fnArgs.notes)
    /\ fnPc' = "again"
    /\ UNCHANGED <<fnArgs, appVars>>

BuildNext == BuildCall \/ BuildAgain

SpecBuild == BuildInit /\ [][BuildNext]_vars

\* the sections of the notes ns in the order the build meets them, each with its note
SectionsOf(ns) ==
    Concat([k \in 1..Len(ns) |->
               [j \in 1..Len(ns[k].blocks) |-> [n |-> ns[k], b |-> ns[k].blocks[j]]]])

GenKeyOf(s) == normalizeNameKey(trim(s.b.title))

IsReservedTitle(title) == toLowerCase(trim(title)) \in Reserved

\* a section the generator index has to mention
IsGeneratorSection(s) == ~IsReservedTitle(s.b.title) /\ GenKeyOf(s) # <<>>

\* the sections of ns that belong under the generator key k, in encounter order
GeneratorSections(ns, k) ==
    SelectSeq(SectionsOf(ns), LAMBDA s : IsGeneratorSection(s) /\ GenKeyOf(s) = k)

Count(seq, x) == Cardinality({i \in 1..Len(seq) : seq[i] = x})

\* the elements of seq dated d, in their order
Dated(seq, d) == SelectSeq(seq, LAMBDA e : e.dateKey = d)

IsPrefix(p, s) == Len(p) <= Len(s) /\ SubSeq(s, 1, Len(p)) = p

\* C3: after the build no section treated as a Power Cycle section (one whose bullets
\* feed the power-cycle table) contributes a mention or a display name to the generator
\* index: every mention comes from a section of its note that is no Power Cycle
\* section, and no display name is a Power Cycle title.
C3_PowerCycleNotGenerator ==
    fnPc = "ret" =>
        /\ \A k \in DOMAIN fnOut.gi.map : \A i \in 1..Len(fnOut.gi.map[k]) :
              \E j \in 1..Len(GeneratorSections(fnArgs.notes, k)) :
                 LET s == GeneratorSections(fnArgs.notes, k)[j]
                 IN  /\ Mention(s.n, s.b) = fnOut.gi.map[k][i]
                     /\ ~IsPowerCycleTitle(s.b.title)
        /\ \A k \in DOMAIN fnOut.gd.map : ~IsPowerCycleTitle(fnOut.gd.map[k])

\* whether list is ordered by date key, most recent first
SortedByDateDesc(list) ==
    \A i, j \in 1..Len(list) : i < j => localeCompare(list[i].dateKey, list[j].dateKey) >= 0

\* the events the bullets of the Power Cycle sections of ns file under key k, in
\* encounter order
PowerCycleEvents(ns, k) ==
    LET secs == SelectSeq(SectionsOf(ns), LAMBDA s : IsPowerCycleTitle(s.b.title))
        EventsOf(s) == [j \in 1..Len(s.b.items) |-> [n |-> s.n, item |-> trim(s.b.items[j])]]
        bullets == Concat([i \in 1..Len(secs) |-> EventsOf(secs[i])])
        mine == SelectSeq(bullets, LAMBDA e : e.item # <<>> /\ normalizeNameKey(e.item) = k)
    IN  [i \in 1..Len(mine) |-> Event(mine[i].n, mine[i].item)]

\* the mentions the sections of ns put under key k, in encounter order
GeneratorMentions(ns, k) ==
    LET secs == GeneratorSections(ns, k)
    IN  [i \in 1..Len(secs) |-> Mention(secs[i].n, secs[i].b)]

\* the date keys of the notes ns
DateKeys(ns) == {ns[i].dateKey : i \in 1..Len(ns)}

\* C7: after the build every mention list of generatorsIndex and every event list of
\* powerCyclesMap is sorted by date key descending, and the entries of one date key
\* stand in the order the build met them (note order, then section or bullet order).
C7_ListsSortedStable ==
    fnPc = "ret" =>
        /\ \A k \in DOMAIN fnOut.gi.map :
              /\ SortedByDateDesc(fnOut.gi.map[k])
              /\ \A d \in DateKeys(fnArgs.notes) :
                    IsPrefix(Dated(fnOut.gi.map[k], d), Dated(GeneratorMentions(fnArgs.notes, k), d))
        /\ \A k \in DOMAIN fnOut.pc.map :
              /\ SortedByDateDesc(fnOut.pc.map[k])
              /\ \A d \in DateKeys(fnArgs.notes) :
                    IsPrefix(Dated(fnOut.pc.map[k], d), Dated(PowerCycleEvents(fnArgs.notes, k), d))

\* a build has returned a mention list of three entries over two date keys, the two of
\* the same date from different notes
C7_Witness ==
    /\ fnPc = "ret"
    /\ ~fnOut.threw
    /\ \E k \in DOMAIN fnOut.gi.map :
          /\ Len(fnOut.gi.map[k]) = 3
          /\ fnOut.gi.map[k][1].dateKey # fnOut.gi.map[k][2].dateKey
          /\ fnOut.gi.map[k][2].dateKey = fnOut.gi.map[k][3].dateKey
          /\ fnOut.gi.map[k][2].noteId # fnOut.gi.map[k][3].noteId
    /\ \E k \in DOMAIN fnOut.pc.map : Len(fnOut.pc.map[k]) >= 2

\* the sections of ns whose title normalizes to key k, reserved or not, in encounter order
SectionsWithKey(ns, k) == SelectSeq(SectionsOf(ns), LAMBDA s : GenKeyOf(s) = k)

\* C8 as claimed: the display name of every generator key is the trimmed title of the
\* first section, in encounter order, whose title normalizes to that key.
C8_DisplayIsFirstTitle ==
    fnPc = "ret" =>
        \A k \in DOMAIN fnOut.gi.map :
            /\ HasOwn(fnOut.gd, k)
            /\ fnOut.gd.map[k] = trim(SectionsWithKey(fnArgs.notes, k)[1].b.title)

\* C8 as amended: the display name of every generator key is the trimmed title of the
\* first section, in encounter order, that is no reserved heading ("power cycle" or
\* "powercycle" once trimmed and lowercased) and whose title normalizes to that key;
\* no later section of the key overwrites it.
C8_DisplayIsFirstGeneratorTitle ==
    fnPc = "ret" =>
        /\ DOMAIN fnOut.gd.map = DOMAIN fnOut.gi.map
        /\ \A k \in DOMAIN fnOut.gi.map :
              fnOut.gd.map[k] = trim(GeneratorSections(fnArgs.notes, k)[1].b.title)

\* a build has returned the display name "generator  a" although a later section of
\* that key is titled "Generator A"
C8_Witness ==
    /\ fnPc = "ret"
    /\ ~fnOut.threw
    /\ HasOwn(fnOut.gd, <<"g", "e", "n", "e", "r", "a", "t", "o", "r", "a">>)
    /\ fnOut.gd.map[<<"g", "e", "n", "e", "r", "a", "t", "o", "r", "a">>] = <<"g", "e", "n", "e", "r", "a", "t", "o", "r", " ", " ", "a">>
    /\ \E j \in 2..Len(GeneratorSections(fnArgs.notes, <<"g", "e", "n", "e", "r", "a", "t", "o", "r", "a">>)) :
          GeneratorSections(fnArgs.notes, <<"g", "e", "n", "e", "r", "a", "t", "o", "r", "a">>)[j].b.title = <<"G", "e", "n", "e", "r", "a", "t", "o", "r", " ", "A">>

RECURSIVE SumLen(_, _)
\* the lengths of the lists of table t under the keys ks, added up
SumLen(t, ks) ==
    IF ks = {} THEN 0
    ELSE LET k == CHOOSE k \in ks : TRUE IN Len(t.map[k]) + SumLen(t, ks \ {k})

\* C9: the generator index loses no mention: after the build the mentions under all
\* keys are as many as the sections, over all notes, whose title is no reserved heading
\* and whose key is not empty.
C9_NoMentionLost ==
    fnPc = "ret" =>
        SumLen(fnOut.gi, DOMAIN fnOut.gi.map)
            = Len(SelectSeq(SectionsOf(fnArgs.notes), IsGeneratorSection))

\* the keys the bullets of the Power Cycle sections of ns normalize to
PowerCycleKeys(ns) ==
    UNION {{normalizeNameKey(trim(SectionsOf(ns)[i].b.items[j])) :
              j \in {j \in 1..Len(SectionsOf(ns)[i].b.items) : trim(SectionsOf(ns)[i].b.items[j]) # <<>>}} :
           i \in {i \in 1..Len(SectionsOf(ns)) : IsPowerCycleTitle(SectionsOf(ns)[i].b.title)}}

\* C10: every non-empty bullet of every section whose trimmed title matches the Power
\* Cycle pattern has exactly one event {date key, note id, filename, trimmed bullet}
\* under the normalized key of the bullet, and powerCyclesMap holds no other event.
C10_OneEventPerBullet ==
    fnPc = "ret" =>
        \A k \in DOMAIN fnOut.pc.map \cup PowerCycleKeys(fnArgs.notes) :
            \A e \in Range(ListAt(fnOut.pc, k)) \cup Range(PowerCycleEvents(fnArgs.notes, k)) :
                Count(ListAt(fnOut.pc, k), e) = Count(PowerCycleEvents(fnArgs.notes, k), e)

\* what C9 and C10 come to when the build returns: the same statements hold whenever
\* no heading or bullet normalizes to a key that {} inherits
CountsWhenBuildReturns ==
    (fnPc = "ret" /\ ~fnOut.threw) =>
        /\ SumLen(fnOut.gi, DOMAIN fnOut.gi.map)
              = Len(SelectSeq(SectionsOf(fnArgs.notes), IsGeneratorSection))
        /\ \A k \in DOMAIN fnOut.pc.map \cup PowerCycleKeys(fnArgs.notes) :
              \A e \in Range(ListAt(fnOut.pc, k)) \cup Range(PowerCycleEvents(fnArgs.notes, k)) :
                  Count(ListAt(fnOut.pc, k), e) = Count(PowerCycleEvents(fnArgs.notes, k), e)

\* C15: rebuilding is idempotent: whatever the number of calls of
\* buildGeneratorsAndPowerCycles over the same notes, each call leaves the three tables
\* with the contents the call before left (nothing of a build is carried into the
\* next), and the notes with their sections are as they were.
C15_RebuildIdempotent ==
    [][(fnPc \in {"ret", "again"}) => (fnOut' = fnOut /\ fnArgs' = fnArgs)]_vars

\* a build has run again over tables that hold mentions, a display name and events
C15_Witness ==
    /\ fnPc = "again"
    /\ \E k \in DOMAIN fnOut.gi.map : Len(fnOut.gi.map[k]) >= 2
    /\ fnOut.gd.order # <<>>
    /\ \E k \in DOMAIN fnOut.pc.map : Len(fnOut.pc.map[k]) >= 2

-----------------------------------------------------------------------------
(* The lookups of showGeneratorMentionsByKey as functions of the tables.   *)

\* generatorsIndex[genKey] || [] : an own list, the inherited value (a function, whose
\* length is its number of parameters), or the empty list
MentionsOf(gi, genKey) ==
    IF HasOwn(gi, genKey) THEN [isList |-> TRUE, list |-> gi.map[genKey], length |-> Len(gi.map[genKey])]
    ELSE IF genKey \in InheritedKeys THEN [isList |-> FALSE, list |-> <<>>, length |-> 1]
    ELSE [isList |-> TRUE, list |-> <<>>, length |-> 0]

\* the keys looked up
LookupKeys ==
    {<<"g", "e", "n", "e", "r", "a", "t", "o", "r", "a">>, <<"g", "e", "n", "e", "r", "a", "t", "o", "r">>, <<"s", "i", "t", "e", "b">>, <<"s", "i", "t", "e">>, <<"b">>, <<"z", "z">>, <<"c", "o", "n", "s", "t", "r", "u", "c", "t", "o", "r">>, <<>>}

LookupInit ==
    /\ AppInit
    /\ fnPc = "call"
    /\ fnOut = <<>>
    /\ \E m \in SeqsUpTo(FileNames, MaxLookupNotes) :
          LET built == buildGeneratorsAndPowerCycles(FreshTables, LoadedNotes(m))
          IN  \E genKey \in LookupKeys :
                  fnArgs = [generatorsIndex |-> built.gi, powerCyclesMap |-> built.pc,
                            genKey |-> genKey]

\* lines 417 and 418 of showGeneratorMentionsByKey
LookupCall ==
    /\ fnPc = "call"
    /\ fnOut' = [mentions |-> MentionsOf(fnArgs.generatorsIndex, fnArgs.genKey),
                 powerCycles |-> findPowerCyclesForGeneratorKey(fnArgs.powerCyclesMap,
                                                                fnArgs.genKey)]
    /\ fnPc' = "ret"
    /\ UNCHANGED <<fnArgs, appVars>>

LookupNext == LookupCall

SpecLookup == LookupInit /\ [][LookupNext]_vars

\* the call has returned or thrown
Looked == fnPc = "ret"

\* the events of seq as a set
Events(seq) == {seq[i] : i \in 1..Len(seq)}

\* the keys of the table t under which the event e is filed
KeysHolding(t, e) == {k \in DOMAIN t.map : e \in Events(t.map[k])}

\* C11: when powerCyclesMap has an exact entry for the key, the lookup returns events of
\* that entry only; events filed under keys that contain the key or are contained in it
\* are not merged in.
C11_ExactEntryOnly ==
    (Looked /\ HasOwn(fnArgs.powerCyclesMap, fnArgs.genKey)) =>
        /\ ~fnOut.powerCycles.threw
        /\ fnOut.powerCycles.out # <<>>
        /\ Events(fnOut.powerCycles.out) \subseteq
               Events(fnArgs.powerCyclesMap.map[fnArgs.genKey])

\* "generator" has an entry of its own beside an entry for "generatora" with an event of
\* another date, which the lookup of "generator" leaves out
C11_Witness ==
    /\ Looked
    /\ fnArgs.genKey = <<"g", "e", "n", "e", "r", "a", "t", "o", "r">>
    /\ HasOwn(fnArgs.powerCyclesMap, <<"g", "e", "n", "e", "r", "a", "t", "o", "r">>)
    /\ HasOwn(fnArgs.powerCyclesMap, <<"g", "e", "n", "e", "r", "a", "t", "o", "r", "a">>)
    /\ \E e \in Events(fnArgs.powerCyclesMap.map[<<"g", "e", "n", "e", "r", "a", "t", "o", "r", "a">>]) :
          \A o \in Events(fnOut.powerCycles.out) : o.dateKey # e.dateKey
    /\ fnOut.powerCycles.out # <<>>

\* the power-cycle keys that are a substring of the key k or contain k as a substring
ContainmentKeys(t, k) == {o \in DOMAIN t.map : includes(o, k) \/ includes(k, o)}

\* C12: when powerCyclesMap has no exact entry for the key, the lookup returns events of
\* the keys that are a substring of the key or contain it, of all of them (each date of
\* theirs is in the result) and of no other key.
C12_FallbackIsContainment ==
    (Looked /\ ~HasOwn(fnArgs.powerCyclesMap, fnArgs.genKey)) =>
        LET matched == ContainmentKeys(fnArgs.powerCyclesMap, fnArgs.genKey)
            out == fnOut.powerCycles.out
        IN  /\ ~fnOut.powerCycles.threw
            /\ \A e \in Events(out) : KeysHolding(fnArgs.powerCyclesMap, e) \cap matched # {}
            /\ \A k \in matched : \A e \in Events(fnArgs.powerCyclesMap.map[k]) :
                  \E o \in Events(out) : o.dateKey = e.dateKey

\* the fallback as the code has it: the empty key is passed over
C12_FallbackOfNonEmptyKeys ==
    (Looked /\ ~HasOwn(fnArgs.powerCyclesMap, fnArgs.genKey) /\ ~fnOut.powerCycles.threw) =>
        LET matched == ContainmentKeys(fnArgs.powerCyclesMap, fnArgs.genKey) \ {<<>>}
            out == fnOut.powerCycles.out
        IN  /\ \A e \in Events(out) : KeysHolding(fnArgs.powerCyclesMap, e) \cap matched # {}
            /\ \A k \in matched : \A e \in Events(fnArgs.powerCyclesMap.map[k]) :
                  \E o \in Events(out) : o.dateKey = e.dateKey

\* the events the lookup of k matches in the table t, in the order it meets them: the
\* exact entry, or else the entries of the non-empty keys that contain k or are
\* contained in k, in the order of Object.keys
MatchesInOrder(t, k) ==
    IF HasOwn(t, k) THEN t.map[k]
    ELSE LET keys == ObjectKeys(t)
         IN  Concat([i \in 1..Len(keys) |->
                        IF keys[i] # <<>> /\ (includes(keys[i], k) \/ includes(k, keys[i]))
                        THEN t.map[keys[i]] ELSE <<>>])

\* C13: the result of the lookup has pairwise distinct date keys, is sorted by date key
\* descending, and holds for each date key of the matches the first event of that date
\* in the order the matches were met.
C13_OneEventPerDateSorted ==
    (Looked /\ ~fnOut.powerCycles.threw) =>
        LET out == fnOut.powerCycles.out
            matches == MatchesInOrder(fnArgs.powerCyclesMap, fnArgs.genKey)
        IN  /\ \A i, j \in 1..Len(out) : i < j => localeCompare(out[i].dateKey, out[j].dateKey) > 0
            /\ {out[i].dateKey : i \in 1..Len(out)} = {matches[i].dateKey : i \in 1..Len(matches)}
            /\ \A i \in 1..Len(out) :
                  out[i] = matches[Min({p \in 1..Len(matches) :
                                           matches[p].dateKey = out[i].dateKey})]

\* the events of two notes that share a date key have collapsed to one entry
C13_Witness ==
    /\ Looked
    /\ ~fnOut.powerCycles.threw
    /\ Len(fnOut.powerCycles.out) = 1
    /\ LET matches == MatchesInOrder(fnArgs.powerCyclesMap, fnArgs.genKey)
       IN  \E i, j \in 1..Len(matches) :
               /\ i < j
               /\ matches[i].dateKey = matches[j].dateKey
               /\ matches[i].noteId # matches[j].noteId

\* C14: a lookup miss is an empty result and no failure: for a key with no generator
\* entry and no exact or containment power-cycle entry, in any state of the tables, the
\* power-cycle lookup returns the empty list and the generator lookup gives the empty
\* mention list, and neither raises an error.
C14_MissesAreEmpty ==
    (/\ Looked
     /\ ~HasOwn(fnArgs.generatorsIndex, fnArgs.genKey)
     /\ ContainmentKeys(fnArgs.powerCyclesMap, fnArgs.genKey) = {}) =>
        /\ ~fnOut.powerCycles.threw
        /\ fnOut.powerCycles.out = <<>>
        /\ fnOut.mentions.isList
        /\ fnOut.mentions.length = 0

\* the misses for every key that no table inherits
MissesOfOwnKeysAreEmpty ==
    (/\ Looked
     /\ fnArgs.genKey \notin InheritedKeys
     /\ ~HasOwn(fnArgs.generatorsIndex, fnArgs.genKey)
     /\ ContainmentKeys(fnArgs.powerCyclesMap, fnArgs.genKey) = {}) =>
        /\ ~fnOut.powerCycles.threw
        /\ fnOut.powerCycles.out = <<>>
        /\ fnOut.mentions.isList
        /\ fnOut.mentions.length = 0

====
